---- MODULE Spec2Model ----
(***************************************************************************)
(* Model of the request handlers of routes.py (ingest_csv, query_documents,*)
(* get_status) over the process-wide FAISSHandler, EmbeddingService and    *)
(* CSVProcessor instances.  The handlers are coroutines of one event loop; *)
(* the handler bodies hold no await, so a handler runs from its first line *)
(* to its response without another handler running in between.            *)
(* utils/faiss_handler.py, utils/embeddings.py and utils/csv_processor.py  *)
(* are modelled from the specification of the vector index subsystem.      *)
(***************************************************************************)
EXTENDS Integers, Sequences, FiniteSets, TLC

\* ---------------------------------------------------------------- bounds
NumReqs == 2        \* request slots that can be in flight together
MaxChunks == 2      \* longest chunk list a CSV yields
MaxRecords == 2     \* an ingest is issued only while it cannot exceed this
NumTexts == 1       \* distinct chunk / query texts
MaxDim == 2         \* embedding widths range over 1..MaxDim
MaxK == 2           \* largest k of a query

Reqs == 1..NumReqs
Texts == 1..NumTexts
Dims == 1..MaxDim
Ks == 1..MaxK

Min(a, b) == IF a < b THEN a ELSE b

RECURSIVE SeqsUpTo(_)
SeqsUpTo(n) == IF n = 0 THEN {<<>>}
               ELSE SeqsUpTo(n - 1) \cup [1..n -> Texts]
ChunkLists == SeqsUpTo(MaxChunks)

\* ------------------------------------------------------ embedding gateway
\* embed: a text becomes a unit vector of the gateway's width
Embed(t, w) == [i \in 1..w |-> IF i = ((t - 1) % w) + 1 THEN 1 ELSE 0]
embed_texts(chunks, w) == [i \in 1..Len(chunks) |-> Embed(chunks[i], w)]
embed_query(q, w) == Embed(q, w)

\* ------------------------------------------------------------ vector store
NoIndex == [ready |-> FALSE, dim |-> 0, vectors |-> <<>>, texts |-> <<>>]
NoDisk == [present |-> FALSE, corrupt |-> FALSE, dim |-> 0,
           vectors |-> <<>>, texts |-> <<>>]

create_index(d) == [ready |-> TRUE, dim |-> d, vectors |-> <<>>, texts |-> <<>>]

\* append accepts a batch only if it is as long as its texts and every
\* vector has the store's dimension
add_ok(ix, vecs, txts) ==
    /\ Len(vecs) = Len(txts)
    /\ \A i \in 1..Len(vecs) : Len(vecs[i]) = ix.dim
add_embeddings(ix, vecs, txts) ==
    [ix EXCEPT !.vectors = @ \o vecs, !.texts = @ \o txts]

get_index_size(ix) == IF ix.ready THEN Len(ix.vectors) ELSE 0

\* save writes the whole store; load rebuilds it
save_index(ix) == [present |-> TRUE, corrupt |-> FALSE, dim |-> ix.dim,
                   vectors |-> ix.vectors, texts |-> ix.texts]
load_index(dk) == [ready |-> TRUE, dim |-> dk.dim,
                   vectors |-> dk.vectors, texts |-> dk.texts]

RECURSIVE Dot(_, _)
Dot(a, b) == IF a = <<>> THEN 0
             ELSE Head(a) * Head(b) + Dot(Tail(a), Tail(b))

\* the record of S that ranks first: highest score, then lowest position
Best(ix, q, S) ==
    CHOOSE i \in S : \A j \in S :
        \/ Dot(q, ix.vectors[i]) > Dot(q, ix.vectors[j])
        \/ Dot(q, ix.vectors[i]) = Dot(q, ix.vectors[j]) /\ i <= j

RECURSIVE TopK(_, _, _, _)
TopK(ix, q, S, k) ==
    IF k = 0 \/ S = {} THEN <<>>
    ELSE LET b == Best(ix, q, S)
         IN <<[score |-> Dot(q, ix.vectors[b]), text |-> ix.texts[b]]>>
              \o TopK(ix, q, S \ {b}, k - 1)

search(ix, q, k) == TopK(ix, q, 1..Len(ix.vectors), Min(k, Len(ix.vectors)))

\* ------------------------------------------------------------------ state
VARIABLES
    index,      \* faiss_handler: the in-memory index (index is None <=> ~ready)
    disk,       \* the persisted file pair
    embed_dim,  \* width of the vectors embedding_service produces
    running,    \* the request whose handler the event loop is executing, or 0
    pc,         \* per request: position in its handler
    args,       \* per request: the request body and the CSV it names
    local,      \* per request: the handler's local embeddings
    calls,      \* per request: the handler calls made so far, in order
    pre,        \* per request: index and disk when its handler started
    resp,       \* per request: the response or HTTPException it got
    raised,     \* per request: the failure raised inside its handler, if any
    prev        \* the last response delivered, if it reported a failure of the persistence layer

vars == <<index, disk, embed_dim, running, pc, args, local, calls, pre, resp, raised, prev>>

NoArgs == [kind |-> "none", csv |-> "none", chunks |-> <<>>, query |-> 0, k |-> 0]
NoPre == [index |-> NoIndex, disk |-> NoDisk]
NoResp == [code |-> 0, err |-> "none", chunks_processed |-> 0, index_size |-> 0,
           index_loaded |-> FALSE, results |-> <<>>]

IngestArgs ==
    {[kind |-> "ingest", csv |-> "missing", chunks |-> <<>>, query |-> 0, k |-> 0],
     [kind |-> "ingest", csv |-> "invalid", chunks |-> <<>>, query |-> 0, k |-> 0]}
    \cup {[kind |-> "ingest", csv |-> "ok", chunks |-> c, query |-> 0, k |-> 0] :
            c \in ChunkLists}
QueryArgs ==
    {[kind |-> "query", csv |-> "none", chunks |-> <<>>, query |-> t, k |-> k] :
            t \in Texts, k \in Ks}
StatusArgs ==
    {[kind |-> "status", csv |-> "none", chunks |-> <<>>, query |-> 0, k |-> 0]}

\* the failure kinds of the vector index subsystem
Taxonomy == {"DimensionMismatch", "EmptyIndex", "IndexNotFound",
             "EmbeddingUnavailable", "PersistenceError", "CorruptState"}

NoPrev == [code |-> 0, raised |-> "none"]

\* the failures of the persistence layer, which the history variable keeps
\* from one response to the next
Remembered == {"IndexNotFound", "PersistenceError"}

Init ==
    /\ index = NoIndex
    /\ disk = NoDisk
    /\ embed_dim \in Dims
    /\ running = 0
    /\ pc = [r \in Reqs |-> "idle"]
    /\ args = [r \in Reqs |-> NoArgs]
    /\ local = [r \in Reqs |-> <<>>]
    /\ calls = [r \in Reqs |-> <<>>]
    /\ pre = [r \in Reqs |-> NoPre]
    /\ resp = [r \in Reqs |-> NoResp]
    /\ raised = [r \in Reqs |-> "none"]
    /\ prev = NoPrev

\* ------------------------------------------------------------- event loop
Entry(kind) == CASE kind = "ingest" -> "i41"
                 [] kind = "query" -> "q94"
                 [] kind = "status" -> "s146"

\* every response produced so far has reached its client
Delivered == \A q \in Reqs : pc[q] # "done"

AllArgs == IngestArgs \cup QueryArgs \cup StatusArgs

\* a client sends a request to one of the three routes (lines 36, 89, 143);
\* it takes the first free slot and waits for the event loop.  Which route
\* and which body is read off the request when its handler starts.
Issue(r) ==
    /\ pc[r] = "idle"
    /\ \A q \in Reqs : q < r => pc[q] # "idle"
    /\ Delivered
    /\ pc' = [pc EXCEPT ![r] = "pending"]
    /\ UNCHANGED <<index, disk, embed_dim, running, args, local, calls, pre, resp, raised, prev>>

\* variant: handlers run on worker threads, a request never waits for another
LoopAlwaysFree == TRUE

\* the loop is free when no handler is between its first line and its response
LoopFree == running = 0

\* the event loop starts the handler that the waiting request a is routed to;
\* waiting requests are alike, the one in the first slot is taken
Schedule(r, a) ==
    /\ pc[r] = "pending"
    /\ \A q \in Reqs : q < r => pc[q] # "pending"
    /\ Delivered
    /\ LoopFree
    /\ a.kind = "ingest" => get_index_size(index) + Len(a.chunks) <= MaxRecords
    /\ running' = r
    /\ pc' = [pc EXCEPT ![r] = Entry(a.kind)]
    /\ args' = [args EXCEPT ![r] = a]
    /\ pre' = [pre EXCEPT ![r] = [index |-> index, disk |-> disk]]
    /\ UNCHANGED <<index, disk, embed_dim, local, calls, resp, raised, prev>>

\* the handler of r ends: with a response (code 200) or an HTTPException;
\* its locals and the request body are dropped
Finish(r, rsp, e) ==
    /\ pc' = [pc EXCEPT ![r] = "done"]
    /\ resp' = [resp EXCEPT ![r] = rsp]
    /\ raised' = [raised EXCEPT ![r] = e]
    /\ args' = [args EXCEPT ![r] = [NoArgs EXCEPT !.kind = args[r].kind]]
    /\ local' = [local EXCEPT ![r] = <<>>]
    /\ pre' = [pre EXCEPT ![r] = NoPre]
    /\ running' = IF running = r THEN 0 ELSE running
    /\ UNCHANGED prev

HTTPException(code, err) == [NoResp EXCEPT !.code = code, !.err = err]

Call(r, name) == calls' = [calls EXCEPT ![r] = Append(@, name)]

\* ------------------------------------------------------------- ingest_csv
\* variant: the failure is swallowed and the ingest answers as a success
IngestExceptSwallowed(e) == [NoResp EXCEPT !.code = 200]

\* lines 83-87: except Exception as e: raise HTTPException(500, ...str(e))
IngestExcept(e) == HTTPException(500, e)

\* variant: the index is created before the CSV is checked
Ingest_validate_after_create(r) ==
    /\ pc[r] = "i41"
    /\ Call(r, "create_index")
    /\ index' = IF index.ready THEN index ELSE create_index(embed_dim)
    /\ IF args[r].csv = "missing"
         THEN Finish(r, HTTPException(404, "CsvNotFound"), "CsvNotFound")
       ELSE IF args[r].csv = "invalid"
         THEN Finish(r, HTTPException(400, "CsvInvalid"), "CsvInvalid")
       ELSE IF args[r].chunks = <<>>
         THEN Finish(r, HTTPException(400, "NoChunks"), "NoChunks")
       ELSE /\ pc' = [pc EXCEPT ![r] = "i63"]
            /\ UNCHANGED <<args, resp, raised, local, pre, running, prev>>
    /\ UNCHANGED <<disk, embed_dim>>

\* lines 41-60: the CSV must exist, validate, and yield at least one chunk
Ingest_validate(r) ==
    /\ pc[r] = "i41"
    /\ IF args[r].csv = "missing"
         THEN Finish(r, HTTPException(404, "CsvNotFound"), "CsvNotFound")
       ELSE IF args[r].csv = "invalid"
         THEN Finish(r, HTTPException(400, "CsvInvalid"), "CsvInvalid")
       ELSE IF args[r].chunks = <<>>
         THEN Finish(r, HTTPException(400, "NoChunks"), "NoChunks")
       ELSE /\ pc' = [pc EXCEPT ![r] = "i63"]
            /\ UNCHANGED <<args, resp, raised, local, pre, running, prev>>
    /\ UNCHANGED <<index, disk, embed_dim, calls>>

\* variant: the index is created before the chunks are embedded
Ingest_embed_after_create(r) ==
    /\ pc[r] = "i63"
    /\ Call(r, "embed_texts")
    /\ index' = IF index.ready THEN index ELSE create_index(embed_dim)
    /\ \E ok \in BOOLEAN :
         IF ok
           THEN /\ local' = [local EXCEPT ![r] = embed_texts(args[r].chunks, embed_dim)]
                /\ pc' = [pc EXCEPT ![r] = "i66"]
                /\ UNCHANGED <<args, resp, raised, pre, running, prev>>
           ELSE Finish(r, IngestExcept("EmbeddingUnavailable"), "EmbeddingUnavailable")
    /\ UNCHANGED <<disk, embed_dim>>

\* line 63: embeddings = embedding_service.embed_texts(chunks)
Ingest_embed(r) ==
    /\ pc[r] = "i63"
    /\ Call(r, "embed_texts")
    /\ \E ok \in BOOLEAN :
         IF ok
           THEN /\ local' = [local EXCEPT ![r] = embed_texts(args[r].chunks, embed_dim)]
                /\ pc' = [pc EXCEPT ![r] = "i66"]
                /\ UNCHANGED <<args, resp, raised, pre, running, prev>>
           ELSE Finish(r, IngestExcept("EmbeddingUnavailable"), "EmbeddingUnavailable")
    /\ UNCHANGED <<index, disk, embed_dim>>

\* variant: the index is created on every ingest
IngestAlwaysCreates == TRUE

\* line 66: if faiss_handler.index is None
IngestNeedsCreate == ~index.ready

\* lines 66-67: create the index with the width of the first embedding
Ingest_create(r) ==
    /\ pc[r] = "i66"
    /\ IF IngestNeedsCreate
         THEN /\ Call(r, "create_index")
              /\ IF index.ready
                   THEN /\ Finish(r, IngestExcept("AlreadyInitialized"), "AlreadyInitialized")
                        /\ UNCHANGED index
                   ELSE /\ index' = create_index(Len(local[r][1]))
                        /\ pc' = [pc EXCEPT ![r] = "i70"]
                        /\ UNCHANGED <<args, resp, raised, local, pre, running, prev>>
         ELSE /\ pc' = [pc EXCEPT ![r] = "i70"]
              /\ UNCHANGED <<index, args, calls, resp, raised, local, pre, running, prev>>
    /\ UNCHANGED <<disk, embed_dim>>

\* variant: a rejected batch tears the index down
Ingest_add_reset(r) ==
    /\ pc[r] = "i70"
    /\ Call(r, "add_embeddings")
    /\ IF add_ok(index, local[r], args[r].chunks)
         THEN /\ index' = add_embeddings(index, local[r], args[r].chunks)
              /\ pc' = [pc EXCEPT ![r] = "i73"]
              /\ UNCHANGED <<args, resp, raised, local, pre, running, prev>>
         ELSE /\ Finish(r, IngestExcept("DimensionMismatch"), "DimensionMismatch")
              /\ index' = NoIndex
    /\ UNCHANGED <<disk, embed_dim>>

\* variant: a rejected batch is ignored and the handler goes on to save
Ingest_add_swallowed(r) ==
    /\ pc[r] = "i70"
    /\ Call(r, "add_embeddings")
    /\ index' = IF add_ok(index, local[r], args[r].chunks)
                  THEN add_embeddings(index, local[r], args[r].chunks)
                  ELSE index
    /\ pc' = [pc EXCEPT ![r] = "i73"]
    /\ UNCHANGED <<disk, embed_dim, args, resp, raised, local, pre, running, prev>>

\* line 70: faiss_handler.add_embeddings(embeddings, chunks); the call raises
\* DimensionMismatch for a batch of another width, and like the calls of
\* lines 63 and 73 it can raise for a reason of its own (lines 83-87 catch
\* any Exception)
Ingest_add(r) ==
    /\ pc[r] = "i70"
    /\ Call(r, "add_embeddings")
    /\ IF add_ok(index, local[r], args[r].chunks)
         THEN \E ok \in BOOLEAN :
                IF ok
                  THEN /\ index' = add_embeddings(index, local[r], args[r].chunks)
                       /\ pc' = [pc EXCEPT ![r] = "i73"]
                       /\ UNCHANGED <<args, resp, raised, local, pre, running, prev>>
                  ELSE /\ Finish(r, IngestExcept("AddFailed"), "AddFailed")
                       /\ UNCHANGED index
         ELSE /\ Finish(r, IngestExcept("DimensionMismatch"), "DimensionMismatch")
              /\ UNCHANGED index
    /\ UNCHANGED <<disk, embed_dim>>

\* variant: a failed save takes the appended batch out of the index again
Ingest_save_rollback(r) ==
    /\ pc[r] = "i73"
    /\ Call(r, "save_index")
    /\ \E ok \in BOOLEAN :
         IF ok
           THEN /\ disk' = save_index(index)
                /\ pc' = [pc EXCEPT ![r] = "i75"]
                /\ UNCHANGED <<index, args, resp, raised, local, pre, running, prev>>
           ELSE /\ Finish(r, IngestExcept("PersistenceError"), "PersistenceError")
                /\ index' = pre[r].index
                /\ UNCHANGED disk
    /\ UNCHANGED embed_dim

\* variant: the handler goes on to its response without saving
Ingest_save_skipped(r) ==
    /\ pc[r] = "i73"
    /\ pc' = [pc EXCEPT ![r] = "i75"]
    /\ UNCHANGED <<index, disk, embed_dim, running, args, local, calls, pre, resp, raised, prev>>

\* line 73: faiss_handler.save_index()
Ingest_save(r) ==
    /\ pc[r] = "i73"
    /\ Call(r, "save_index")
    /\ \E ok \in BOOLEAN :
         IF ok
           THEN /\ disk' = save_index(index)
                /\ pc' = [pc EXCEPT ![r] = "i75"]
                /\ UNCHANGED <<args, resp, raised, local, pre, running, prev>>
           ELSE /\ Finish(r, IngestExcept("PersistenceError"), "PersistenceError")
                /\ UNCHANGED disk
    /\ UNCHANGED <<index, embed_dim>>

\* variant: the response reports the batch size as the index size
IngestResponseOfBatch(n, size) ==
    [NoResp EXCEPT !.code = 200, !.chunks_processed = n, !.index_size = n]

\* lines 75-79: return IngestResponse(...)
IngestResponse(n, size) ==
    [NoResp EXCEPT !.code = 200, !.chunks_processed = n, !.index_size = size]

Ingest_return(r) ==
    /\ pc[r] = "i75"
    /\ Call(r, "get_index_size")
    /\ Finish(r, IngestResponse(Len(args[r].chunks), get_index_size(index)), "none")
    /\ UNCHANGED <<index, disk, embed_dim>>

\* -------------------------------------------------------- query_documents
\* lines 137-141: except Exception as e: raise HTTPException(500, ...str(e))
QueryExcept(e) == HTTPException(500, e)

\* variant: every query loads
QueryAlwaysLoads == TRUE

\* variant: the query never tries to load
QueryNeverLoads == FALSE

\* line 94: if faiss_handler.index is None
QueryNeedsLoad == ~index.ready

\* variant: a query that finds nothing to load creates and saves an empty index
Query_load_creating(r) ==
    /\ pc[r] = "q94"
    /\ IF QueryNeedsLoad
         THEN IF ~disk.present
                THEN /\ calls' = [calls EXCEPT
                                    ![r] = @ \o <<"load_index", "create_index", "save_index">>]
                     /\ index' = create_index(embed_dim)
                     /\ disk' = save_index(index')
                     /\ Finish(r, HTTPException(404, "IndexNotFound"), "IndexNotFound")
              ELSE IF disk.corrupt
                THEN /\ Call(r, "load_index")
                     /\ Finish(r, QueryExcept("CorruptState"), "CorruptState")
                     /\ UNCHANGED <<index, disk>>
              ELSE /\ Call(r, "load_index")
                   /\ index' = load_index(disk)
                   /\ pc' = [pc EXCEPT ![r] = "q103"]
                   /\ UNCHANGED <<disk, args, resp, raised, local, pre, running, prev>>
         ELSE /\ pc' = [pc EXCEPT ![r] = "q103"]
              /\ UNCHANGED <<index, disk, args, calls, resp, raised, local, pre, running, prev>>
    /\ UNCHANGED embed_dim

\* lines 94-100: load the persisted index, or answer 404
Query_load(r) ==
    /\ pc[r] = "q94"
    /\ IF QueryNeedsLoad
         THEN /\ Call(r, "load_index")
              /\ IF ~disk.present
                   THEN /\ Finish(r, HTTPException(404, "IndexNotFound"), "IndexNotFound")
                        /\ UNCHANGED index
                 ELSE IF disk.corrupt
                   THEN /\ Finish(r, QueryExcept("CorruptState"), "CorruptState")
                        /\ UNCHANGED index
                 ELSE /\ index' = load_index(disk)
                      /\ pc' = [pc EXCEPT ![r] = "q103"]
                      /\ UNCHANGED <<args, resp, raised, local, pre, running, prev>>
         ELSE /\ pc' = [pc EXCEPT ![r] = "q103"]
              /\ UNCHANGED <<index, args, calls, resp, raised, local, pre, running, prev>>
    /\ UNCHANGED <<disk, embed_dim>>

\* line 103: query_embedding = embedding_service.embed_query(request.query)
Query_embed(r) ==
    /\ pc[r] = "q103"
    /\ Call(r, "embed_query")
    /\ \E ok \in BOOLEAN :
         IF ok
           THEN /\ local' = [local EXCEPT ![r] = embed_query(args[r].query, embed_dim)]
                /\ pc' = [pc EXCEPT ![r] = "q106"]
                /\ UNCHANGED <<args, resp, raised, pre, running, prev>>
           ELSE Finish(r, QueryExcept("EmbeddingUnavailable"), "EmbeddingUnavailable")
    /\ UNCHANGED <<index, disk, embed_dim>>

\* lines 108-127: one entry per hit, ranked from 1
Format(results) ==
    [i \in 1..Len(results) |->
        [rank |-> i, score |-> results[i].score, content |-> results[i].text]]

QueryResponse(results) == [NoResp EXCEPT !.code = 200, !.results = results]

\* lines 106-133: search, format, return QueryResponse(...)
Query_search(r) ==
    /\ pc[r] = "q106"
    /\ Call(r, "search")
    /\ IF Len(local[r]) # index.dim
         THEN Finish(r, QueryExcept("DimensionMismatch"), "DimensionMismatch")
       ELSE IF Len(index.vectors) = 0
         THEN Finish(r, QueryExcept("EmptyIndex"), "EmptyIndex")
       ELSE Finish(r, QueryResponse(Format(search(index, local[r], args[r].k))), "none")
    /\ UNCHANGED <<index, disk, embed_dim>>

\* -------------------------------------------------------------- get_status
\* lines 146-153
StatusResponse(ix) ==
    [NoResp EXCEPT !.code = 200,
                   !.index_size = IF ix.ready THEN get_index_size(ix) ELSE 0,
                   !.index_loaded = ix.ready]

\* variant: status loads the persisted index when none is in memory
Get_status_loading(r) ==
    /\ pc[r] = "s146"
    /\ IF ~index.ready /\ disk.present /\ ~disk.corrupt
         THEN /\ Call(r, "load_index")
              /\ index' = load_index(disk)
              /\ Finish(r, StatusResponse(load_index(disk)), "none")
         ELSE /\ Finish(r, StatusResponse(index), "none")
              /\ UNCHANGED <<index, calls>>
    /\ UNCHANGED <<disk, embed_dim>>

Get_status(r) ==
    /\ pc[r] = "s146"
    /\ IF index.ready
         THEN Call(r, "get_index_size")
         ELSE UNCHANGED calls
    /\ Finish(r, StatusResponse(index), "none")
    /\ UNCHANGED <<index, disk, embed_dim>>

\* ------------------------------------------------------------- environment
\* the client receives the response; the slot is free again
Deliver(r) ==
    /\ pc[r] = "done"
    /\ pc' = [pc EXCEPT ![r] = "idle"]
    /\ args' = [args EXCEPT ![r] = NoArgs]
    /\ resp' = [resp EXCEPT ![r] = NoResp]
    /\ raised' = [raised EXCEPT ![r] = "none"]
    /\ calls' = [calls EXCEPT ![r] = <<>>]
    /\ prev' = IF raised[r] \in Remembered
                 THEN [code |-> resp[r].code, raised |-> raised[r]]
                 ELSE NoPrev
    /\ UNCHANGED <<index, disk, embed_dim, running, local, pre>>

\* the process exits and is started again: the module-level services are
\* constructed anew (lines 14-16), the files stay
Restart ==
    /\ index' = NoIndex
    /\ embed_dim' \in Dims
    /\ running' = 0
    /\ pc' = [r \in Reqs |-> "idle"]
    /\ args' = [r \in Reqs |-> NoArgs]
    /\ local' = [r \in Reqs |-> <<>>]
    /\ calls' = [r \in Reqs |-> <<>>]
    /\ pre' = [r \in Reqs |-> NoPre]
    /\ resp' = [r \in Reqs |-> NoResp]
    /\ raised' = [r \in Reqs |-> "none"]
    /\ prev' = NoPrev
    /\ UNCHANGED disk

\* the persisted files are damaged from outside the process: they are still
\* there but no store can be rebuilt from them; damage that
\* falls inside a handler acts as damage just before or just after it, since
\* a handler touches the files in one step only (load_index or save_index)
CorruptDisk ==
    /\ running = 0
    /\ Delivered
    /\ disk.present
    /\ ~disk.corrupt
    /\ disk' = [NoDisk EXCEPT !.present = TRUE, !.corrupt = TRUE]
    /\ UNCHANGED <<index, embed_dim, running, pc, args, local, calls, pre, resp, raised, prev>>

Step(r) ==
    \/ Ingest_validate(r)
    \/ Ingest_embed(r)
    \/ Ingest_create(r)
    \/ Ingest_add(r)
    \/ Ingest_save(r)
    \/ Ingest_return(r)
    \/ Query_load(r)
    \/ Query_embed(r)
    \/ Query_search(r)
    \/ Get_status(r)

Next ==
    \/ \E r \in Reqs : Issue(r)
    \/ \E r \in Reqs : \E a \in AllArgs : Schedule(r, a)
    \/ \E r \in Reqs : Step(r)
    \/ \E r \in Reqs : Deliver(r)
    \/ Restart
    \/ CorruptDisk

Spec == Init /\ [][Next]_vars

TypeOK ==
    /\ index.ready \in BOOLEAN
    /\ Len(index.vectors) = Len(index.texts)
    /\ running \in 0..NumReqs
    /\ get_index_size(index) <= MaxRecords

\* ------------------------------------------------------------ properties
Last(s) == s[Len(s)]
Called(r, name) == \E i \in 1..Len(calls[r]) : calls[r][i] = name
Before(s, a, b) == \E i \in 1..Len(s) : \E j \in 1..Len(s) : i < j /\ s[i] = a /\ s[j] = b

\* the handler of r takes a step / its last step
Steps(r) == pc[r] \notin {"idle", "pending", "done"} /\ pc'[r] # pc[r] /\ pc'[r] # "idle"
Returns(r) == Steps(r) /\ pc'[r] = "done"
\* the handler of r calls name in this step
Calls(r, name) == Steps(r) /\ calls'[r] # calls[r] /\ Last(calls'[r]) = name

InWrite(r) == pc[r] \in {"i66", "i70", "i73"}

\* C1: an ingest that answers with an IngestResponse has called save_index
\* after add_embeddings, and at that moment the persisted state is the saved
\* image of the in-memory index, so it holds every in-memory record.
C1_SavedBeforeSuccess ==
    [][\A r \in Reqs :
         (Returns(r) /\ args[r].kind = "ingest" /\ resp'[r].code = 200) =>
            /\ Before(calls'[r], "add_embeddings", "save_index")
            /\ disk' = save_index(index')]_vars

C1_Witness ==
    \E r \in Reqs :
        /\ pc[r] = "done" /\ args[r].kind = "ingest" /\ resp[r].code = 200
        /\ Called(r, "save_index")
        /\ Len(index.vectors) > 0
        /\ disk = save_index(index)

\* C2: a query that finds the index uninitialized and nothing persisted
\* (load_index returns false) ends with 404 IndexNotFound; it has called
\* load_index only (no embedding, no search) and the index stays uninitialized.
C2_QueryWithoutIndex ==
    [][\A r \in Reqs :
         (Steps(r) /\ pc[r] = "q94" /\ ~index.ready /\ ~disk.present) =>
            /\ pc'[r] = "done"
            /\ resp'[r].code = 404
            /\ raised'[r] = "IndexNotFound"
            /\ calls'[r] = <<"load_index">>
            /\ ~index'.ready]_vars

C2_Witness ==
    \E r \in Reqs :
        /\ pc[r] = "done" /\ args[r].kind = "query" /\ resp[r].code = 404
        /\ calls[r] = <<"load_index">>
        /\ ~index.ready /\ ~disk.present

\* C3: within one process create_index is called only while the index is
\* uninitialized, and once the index is Ready no step changes its dimension.
C3_DimensionBoundOnce ==
    [][Restart \/
       /\ \A r \in Reqs : Calls(r, "create_index") => ~index.ready
       /\ index.ready => index'.dim = index.dim]_vars

C3_Witness ==
    \E r \in Reqs :
        /\ pc[r] = "done" /\ args[r].kind = "ingest" /\ resp[r].code = 200
        /\ ~Called(r, "create_index")
        /\ index.ready /\ Len(index.vectors) > 1

\* C4: ingests are serialized: at most one request is inside the
\* create/append/save sequence of ingest_csv at a time.
C4_SingleWriter ==
    \A r1 \in Reqs : \A r2 \in Reqs : (InWrite(r1) /\ InWrite(r2)) => r1 = r2

C4_Witness ==
    \E r1 \in Reqs : \E r2 \in Reqs :
        /\ r1 # r2
        /\ InWrite(r1)
        /\ pc[r2] = "pending"

\* C5 (as claimed): two different failure kinds of the taxonomy never reach
\* the caller with the same error type (HTTP status); checked on a response
\* and the one delivered before it.
C5_DistinctTypes ==
    \A r \in Reqs :
        (/\ pc[r] = "done"
         /\ raised[r] \in Taxonomy /\ prev.raised \in Taxonomy
         /\ raised[r] # prev.raised) => resp[r].code # prev.code

\* C5 (amended): every failure of the taxonomy raised during ingest or query
\* reaches the caller as an HTTP error, none is swallowed: IndexNotFound as
\* 404, every other kind as 500.
C5_FailuresReported ==
    \A r \in Reqs :
        (pc[r] = "done" /\ raised[r] \in Taxonomy) =>
            resp[r].code = IF raised[r] = "IndexNotFound" THEN 404 ELSE 500

C5_Witness ==
    \E r \in Reqs :
        /\ pc[r] = "done" /\ raised[r] = "PersistenceError" /\ resp[r].code = 500
        /\ prev.raised = "IndexNotFound" /\ prev.code = 404

Contents(results) == {results[i].content : i \in 1..Len(results)}
Range(f) == {f[i] : i \in 1..Len(f)}

\* C6: when embed_texts fails in an ingest, none of create_index,
\* add_embeddings, save_index is called, and the in-memory index and the
\* persisted state are what they were when the ingest started.
C6_EmbedFailureCommitsNothing ==
    [][\A r \in Reqs :
         (Returns(r) /\ args[r].kind = "ingest"
            /\ raised'[r] = "EmbeddingUnavailable") =>
              /\ calls'[r] = <<"embed_texts">>
              /\ index' = pre[r].index
              /\ disk' = pre[r].disk]_vars

C6_Witness ==
    \E r \in Reqs :
        /\ pc[r] = "done" /\ args[r].kind = "ingest"
        /\ raised[r] = "EmbeddingUnavailable"
        /\ calls[r] = <<"embed_texts">>
        /\ ~index.ready

\* C7: when save_index fails in an ingest after add_embeddings succeeded, the
\* ingest ends with an error, the batch stays appended to the in-memory index
\* (size = size before + batch length), the persisted state is unchanged,
\* and a query that asks for at least as many hits as there are records gets
\* every in-memory record, saved or not.
C7_SaveFailureKeepsBatch ==
    [][\A r \in Reqs :
         /\ (Returns(r) /\ args[r].kind = "ingest"
               /\ raised'[r] = "PersistenceError") =>
                 /\ resp'[r].code = 500
                 /\ index'.ready
                 /\ index'.texts = pre[r].index.texts \o args[r].chunks
                 /\ get_index_size(index') =
                        get_index_size(pre[r].index) + Len(args[r].chunks)
                 /\ disk' = pre[r].disk
         /\ (Returns(r) /\ args[r].kind = "query" /\ resp'[r].code = 200
               /\ args[r].k >= Len(index.texts)) =>
                 Contents(resp'[r].results) = Range(index.texts)]_vars

C7_Witness ==
    \E r \in Reqs :
        /\ prev.raised = "PersistenceError"
        /\ pc[r] = "done" /\ args[r].kind = "query" /\ resp[r].code = 200
        /\ ~disk.present
        /\ Len(resp[r].results) = Len(index.texts)

\* C8: get_status never fails and only reads: it answers index_loaded =
\* (index is not None) and index_size = the in-memory record count (0 when
\* uninitialized), calls neither load_index nor save_index, and leaves the
\* in-memory index and the persisted state as they are.
C8_StatusPureRead ==
    [][\A r \in Reqs :
         (Steps(r) /\ pc[r] = "s146") =>
            /\ pc'[r] = "done"
            /\ raised'[r] = "none"
            /\ resp'[r] = [NoResp EXCEPT !.code = 200,
                                         !.index_loaded = index.ready,
                                         !.index_size = IF index.ready
                                                          THEN Len(index.texts)
                                                          ELSE 0]
            /\ \A i \in 1..Len(calls'[r]) :
                   calls'[r][i] \notin {"load_index", "save_index"}
            /\ index' = index
            /\ disk' = disk]_vars

C8_Witness ==
    \E r \in Reqs :
        /\ pc[r] = "done" /\ args[r].kind = "status"
        /\ resp[r].code = 200
        /\ resp[r].index_loaded /\ resp[r].index_size = Len(index.texts)
        /\ resp[r].index_size > 0
        /\ ~Called(r, "load_index") /\ ~Called(r, "save_index")

\* C9: within one process no step leaves Ready: once the index is not None
\* it stays not None whatever call follows, failed calls included.
C9_ReadyIsStable ==
    [][Restart \/ (index.ready => index'.ready)]_vars

C9_Witness ==
    \E r \in Reqs :
        /\ pc[r] = "done" /\ args[r].kind = "ingest"
        /\ raised[r] = "DimensionMismatch"
        /\ index.ready

\* C10 (as claimed): over the queries of one process load_index is
\* attempted at most once; IndexNotFound is raised by a query only after its
\* load_index found nothing, so a query that attempts load_index right after
\* one answered IndexNotFound is a second attempt.
C10_LoadAtMostOnce ==
    \A r \in Reqs : ~(prev.raised = "IndexNotFound" /\ Called(r, "load_index"))

\* C10 (amended): every query that finds the index uninitialized attempts
\* load_index, so a load that finds nothing is attempted again by the next
\* query; load_index is never attempted once the index is Ready.
C10_LoadOnlyWhileUninitialized ==
    [][\A r \in Reqs :
         /\ Calls(r, "load_index") => ~index.ready
         /\ (Steps(r) /\ pc[r] = "q94" /\ ~index.ready) => Calls(r, "load_index")
         /\ (Steps(r) /\ pc[r] = "q94" /\ index.ready) =>
                (calls'[r] = calls[r] /\ index' = index)]_vars

C10_Witness ==
    \E r \in Reqs :
        /\ pc[r] = "done" /\ args[r].kind = "query" /\ resp[r].code = 200
        /\ ~Called(r, "load_index")
        /\ Called(r, "search")
        /\ index.ready /\ disk.present

\* C11: an ingest into an index that was Ready when it started, with a batch
\* whose width differs from the bound dimension, fails with DimensionMismatch
\* at add_embeddings: record count and dimension stay as they were,
\* save_index is not called and the persisted state is unchanged.
C11_MismatchLeavesIndex ==
    [][\A r \in Reqs :
         (Steps(r) /\ pc[r] = "i70" /\ pre[r].index.ready
            /\ Len(local[r][1]) # index.dim) =>
              /\ pc'[r] = "done"
              /\ raised'[r] = "DimensionMismatch"
              /\ resp'[r].code = 500
              /\ index' = pre[r].index
              /\ disk' = pre[r].disk
              /\ \A i \in 1..Len(calls'[r]) : calls'[r][i] # "save_index"]_vars

C11_Witness ==
    \E r \in Reqs :
        /\ pc[r] = "done" /\ args[r].kind = "ingest"
        /\ raised[r] = "DimensionMismatch" /\ resp[r].code = 500
        /\ Last(calls[r]) = "add_embeddings"
        /\ index.ready /\ Len(index.texts) > 0
        /\ disk = save_index(index)

\* C12: a query is never at its search step (line 106) while an ingest is at
\* its append step (line 70): the search never reads the index between the
\* start and the end of add_embeddings.
C12_SearchExcludesAppend ==
    \A r1, r2 \in Reqs :
        ~(pc[r1] = "i70" /\ pc[r2] = "q106")

C12_Witness ==
    \E r1, r2 \in Reqs :
        /\ pc[r1] = "q106" /\ index.ready /\ Len(index.texts) > 0
        /\ pc[r2] = "pending"

\* C13: records are append-only across restarts: no step of the service
\* (ingest, query, status, restart) makes the persisted record count smaller;
\* damage done to the files from outside is not a step of the service.
C13_PersistedNeverShrinks ==
    [][CorruptDisk \/ Len(disk'.texts) >= Len(disk.texts)]_vars

\* C14: a failed ingest does not change the lifecycle state: when an ingest
\* that started with the index uninitialized fails at add_embeddings, after
\* create_index was called, the index is still uninitialized afterwards.
C14_FailedIngestKeepsLifecycle ==
    [][\A r \in Reqs :
         (Returns(r) /\ pc[r] = "i70" /\ ~pre[r].index.ready
            /\ raised'[r] # "none") => ~index'.ready]_vars

\* C15: an ingest rejected before embedding (missing file 404, failed
\* validation 400, no chunks 400) has called none of embed_texts,
\* create_index, add_embeddings and save_index, and leaves the in-memory
\* index and the persisted state as they were; no index is created from an
\* empty chunk list.
C15_RejectedIngestTouchesNothing ==
    [][\A r \in Reqs :
         (Steps(r) /\ pc[r] = "i41"
            /\ (args[r].csv # "ok" \/ args[r].chunks = <<>>)) =>
              /\ pc'[r] = "done"
              /\ resp'[r].code = IF args[r].csv = "missing" THEN 404 ELSE 400
              /\ raised'[r] = IF args[r].csv = "missing" THEN "CsvNotFound"
                              ELSE IF args[r].csv = "invalid" THEN "CsvInvalid"
                              ELSE "NoChunks"
              /\ calls'[r] = <<>>
              /\ index' = pre[r].index
              /\ disk' = pre[r].disk]_vars

C15_Witness ==
    \E r \in Reqs :
        /\ pc[r] = "done" /\ args[r].kind = "ingest"
        /\ raised[r] = "NoChunks" /\ resp[r].code = 400
        /\ calls[r] = <<>>
        /\ ~index.ready /\ ~disk.present

\* C16: a successful ingest of n chunks reports chunks_processed = n and
\* index_size = (in-memory record count when it started) + n, for every
\* n >= 1 and every prior state, an uninitialized index counting as 0.
C16_IngestReportsSizes ==
    [][\A r \in Reqs :
         (Returns(r) /\ args[r].kind = "ingest" /\ resp'[r].code = 200) =>
              /\ Len(args[r].chunks) >= 1
              /\ resp'[r].chunks_processed = Len(args[r].chunks)
              /\ resp'[r].index_size =
                     get_index_size(pre[r].index) + Len(args[r].chunks)
              /\ resp'[r].index_size = get_index_size(index')]_vars

C16_Witness ==
    \E r \in Reqs :
        /\ pc[r] = "done" /\ args[r].kind = "ingest"
        /\ resp[r].code = 200 /\ raised[r] = "none"
        /\ resp[r].chunks_processed >= 1
        /\ resp[r].index_size > resp[r].chunks_processed
        /\ resp[r].index_size = get_index_size(index)

\* C17: a query is read-only: it calls none of create_index, add_embeddings
\* and save_index, it leaves the persisted state unchanged, and it leaves a
\* Ready index as it is; the only change it can make is Uninitialized ->
\* Ready by a successful load_index.
C17_QueryReadOnly ==
    [][\A r \in Reqs :
         (Steps(r) /\ args[r].kind = "query") =>
              /\ disk' = disk
              /\ \A i \in 1..Len(calls'[r]) :
                    calls'[r][i] \notin {"create_index", "add_embeddings", "save_index"}
              /\ index.ready => index' = index
              /\ ~index.ready => index' = index \/ index' = load_index(disk)]_vars

C17_Witness ==
    \E r \in Reqs :
        /\ pc[r] = "done" /\ args[r].kind = "query"
        /\ resp[r].code = 200
        /\ calls[r] = <<"load_index", "embed_query", "search">>
        /\ index = load_index(disk) /\ Len(index.texts) > 0

====
